---- MODULE Spec2Model ----
(***************************************************************************)
(* Session-scoped hybrid retrieval engine and exploration controller of   *)
(* github-agent-demo: VectorStore / VectorStoreManager                    *)
(* (app/services/vector_service.py), agent_stream                         *)
(* (app/services/agent_service.py) and process_chat_stream                *)
(* (app/services/chat_service.py).                                        *)
(*                                                                         *)
(* Scheduling model.  Request handlers are asyncio coroutines on one      *)
(* event loop: the code between two suspension points (await / yield) of   *)
(* a coroutine is one atomic action.  add_documents and chunk_file are     *)
(* handed to worker threads with asyncio.to_thread; a worker thread runs   *)
(* concurrently with the event loop, and its steps (one loop iteration of  *)
(* add_documents, then the collection.add + BM25 rebuild tail) are         *)
(* separate actions that interleave with the coroutines' actions.          *)
(***************************************************************************)
EXTENDS Integers, Sequences, FiniteSets, TLC

\* ------------------------------------------------------------------ bounds
MaxReportChunks == 1   \* fragments the summarisation stream yields at most

\* ------------------------------------------------------- program constants
MAX_ROUNDS == 3
RRF_K == 60
WEIGHT_VECTOR_X10 == 10    \* weight_vector = 1.0, in tenths
WEIGHT_BM25_X10 == 3       \* weight_bm25   = 0.3, in tenths
CHAT_TOP_K == 5

\* ------------------------------------------------------------ small worlds
Sessions == {"s1", "s2"}
Urls == {"u1", "u2"}
Procs == {"p1", "p2"}
\* The requests the two clients send: p1 works on session s1 with repository
\* u1, p2 on either session with repository u2.
SessionsOf(p) == IF p = "p1" THEN {"s1"} ELSE Sessions
UrlOf(p) == IF p = "p1" THEN "u1" ELSE "u2"
None == "None"
README == "README.md"
APY == "a.py"
GHOST == "ghost.py"

\* A text is the sequence of pieces that re.split(r'[^a-zA-Z0-9]') cuts it
\* into (consecutive separators give empty pieces).
\* File contents served by the repository at url u, already chunked: the
\* README is one chunk, a.py is two.
FileChunks(u, f) ==
    IF f = README THEN << <<"Readme", "", u>> >>
    ELSE IF f = APY THEN << <<"def", "Main">>, <<"class", "", "App", u>> >>
    ELSE << >>

\* File listing of the repository at u (get_repo_structure on success).
Listing(u) == IF u = "u1" THEN <<README, APY>> ELSE <<APY>>

Queries == { <<"main">>, <<"README", "", "u1">>, <<"zzz">> }

Lower(w) ==
    CASE w = "Readme" -> "readme"
      [] w = "README" -> "readme"
      [] w = "Main" -> "main"
      [] w = "App" -> "app"
      [] OTHER -> w

\* ---------------------------------------------------------------- helpers
Min(a, b) == IF a < b THEN a ELSE b

Range(s) == { s[i] : i \in 1..Len(s) }

Take(s, n) == SubSeq(s, 1, Min(n, Len(s)))

\* A Python list built by a comprehension: the elements are computed once.
ListOf(f) == SubSeq(f, 1, Len(f))

\* Python's sorted(s, key=..., reverse=True), k[i] being the key of s[i]:
\* descending by key, elements with equal keys keep their order.
SortDescBy(s, k) ==
    LET n == Len(s)
        pos == ListOf([i \in 1..n |-> 1 + Cardinality({ j \in 1..n :
                                  k[j] > k[i] \/ (k[j] = k[i] /\ j < i) })])
    IN ListOf([p \in 1..n |-> s[CHOOSE i \in 1..n : pos[i] = p]])

\* ------------------------------------------------------------ VectorStore
\* _tokenize: split pieces, empty pieces dropped, lower-cased.
Tokenize(text) ==
    LET kept == SelectSeq(text, LAMBDA t : t # "")
    IN ListOf([i \in 1..Len(kept) |-> Lower(kept[i])])

NoBm25 == [built |-> FALSE, corpus |-> << >>]

\* State of a VectorStore right after __init__'s field assignments.
EmptyStore == [repo_url |-> None, indexed_files |-> {}, bm25 |-> NoBm25,
               doc_store |-> << >>, inst |-> 0]

\* The chroma collection a store of session s uses: f"repo_{session_id}".
CollectionNameShared(s) == "s1"
CollectionName(s) == s

\* reset_collection on the store fields (the collection is recreated by the
\* caller action, by name).
ResetKeepDocs(st) == [st EXCEPT !.bm25 = NoBm25, !.repo_url = None,
                                !.indexed_files = {}]
ResetKeepUrl(st) == [st EXCEPT !.bm25 = NoBm25, !.doc_store = << >>,
                               !.indexed_files = {}]
ResetCollection(st) == [st EXCEPT !.bm25 = NoBm25, !.doc_store = << >>,
                                  !.repo_url = None, !.indexed_files = {}]

\* Lexical relevance of a document for a query (BM25Okapi.get_scores,
\* abstracted to the number of document tokens that occur in the query).
Bm25Score(qtok, dtok) ==
    Cardinality({ i \in 1..Len(dtok) : dtok[i] \in Range(qtok) })

\* Dense similarity (collection.query ordering), abstracted the same way on
\* the stored document text.
Similarity(q, text) == Bm25Score(Tokenize(q), Tokenize(text))

\* get_documents_by_file: filter on metadata.file, formatted, sorted by
\* metadata.get('start_line', 0) ascending (stable).
GetDocumentsByFile(st, path) ==
    LET raw == SelectSeq(st.doc_store, LAMBDA d : d.file = path)
        fmt == ListOf([i \in 1..Len(raw) |->
                  [id |-> raw[i].id, content |-> raw[i].content,
                   file |-> raw[i].file, owner |-> raw[i].owner,
                   start_line |-> 0]])
    IN SortDescBy(fmt, ListOf([i \in 1..Len(fmt) |-> 0 - fmt[i].start_line]))

\* Step 1 of search_hybrid: up to 2*top_k nearest entries of the collection,
\* none when the query embedding failed.
VectorResults(coll, q, top_k, embOk) ==
    IF ~embOk THEN << >>
    ELSE LET ranked == SortDescBy(coll, ListOf([i \in 1..Len(coll) |->
                                                  Similarity(q, coll[i].content)]))
         IN ListOf([i \in 1..Min(Len(ranked), 2 * top_k) |->
               [id |-> ranked[i].id, content |-> ranked[i].content,
                file |-> ranked[i].file, owner |-> ranked[i].owner]])

\* Step 2 of search_hybrid: BM25 over the corpus the index was built on,
\* items taken from doc_store by index.
Bm25Results(st, q, top_k) ==
    IF ~st.bm25.built THEN << >>
    ELSE LET corpus == st.bm25.corpus
             tokenized_query == Tokenize(q)
             doc_scores == ListOf([i \in 1..Len(corpus) |->
                                     Bm25Score(tokenized_query, corpus[i])])
             idx == ListOf([i \in 1..Len(corpus) |-> i])
             top == Take(SortDescBy(idx, doc_scores),
                         Min(Len(corpus), 2 * top_k))
             hits == SelectSeq(top, LAMBDA i : doc_scores[i] > 0)
         IN ListOf([n \in 1..Len(hits) |->
               [id |-> st.doc_store[hits[n]].id,
                content |-> st.doc_store[hits[n]].content,
                file |-> st.doc_store[hits[n]].file,
                owner |-> st.doc_store[hits[n]].owner]])

\* Weighted RRF contribution of one list to id: the sum, over the 0-based
\* ranks at which id occurs, of weight * (1 / (k + rank + 1)).  Scores are
\* kept in fixed point, FIX units per 0.1.
FIX == 100000000
RECURSIVE RrfSum(_, _, _, _)
RrfSum(list, id, weightX10, i) ==
    IF i > Len(list) THEN 0
    ELSE (IF list[i].id = id THEN (weightX10 * FIX) \div (RRF_K + (i - 1) + 1) ELSE 0)
         + RrfSum(list, id, weightX10, i + 1)

FusedScore(vec, lex, id) ==
    RrfSum(vec, id, WEIGHT_VECTOR_X10, 1) + RrfSum(lex, id, WEIGHT_BM25_X10, 1)

\* Keys of fused_scores in insertion order, each with the first item seen.
RECURSIVE FirstById(_, _)
FirstById(items, seen) ==
    IF items = << >> THEN << >>
    ELSE IF Head(items).id \in seen THEN FirstById(Tail(items), seen)
    ELSE <<Head(items)>> \o FirstById(Tail(items), seen \cup {Head(items).id})

\* Step 3 of search_hybrid and the final cut.
Fuse(vec, lex, top_k) ==
    LET entries == FirstById(vec \o lex, {})
        sorted == SortDescBy(entries, ListOf([i \in 1..Len(entries) |->
                                                FusedScore(vec, lex, entries[i].id)]))
    IN Take(sorted, top_k)

\* search_hybrid(query, top_k); embOk is whether embed_text(query) succeeded.
SearchHybrid(st, coll, q, top_k, embOk) ==
    Fuse(VectorResults(coll, q, top_k, embOk), Bm25Results(st, q, top_k), top_k)

\* ----------------------------------------------------- VectorStoreManager
\* get_store on the stores dict: the dict afterwards, and whether a
\* VectorStore was constructed (__init__ ends with reset_collection).
\* A store carries the serial number of its construction for its session.
GetStoreAlways(ss, made, s) ==
    [stores |-> [t \in (DOMAIN ss) \cup {s} |->
                   IF t = s THEN [ResetCollection(EmptyStore) EXCEPT !.inst = made[s] + 1]
                   ELSE ss[t]],
     made |-> TRUE]
GetStore(ss, made, s) ==
    IF s \notin DOMAIN ss
    THEN [stores |-> [t \in (DOMAIN ss) \cup {s} |->
                        IF t = s THEN [ResetCollection(EmptyStore) EXCEPT !.inst = made[s] + 1]
                        ELSE ss[t]],
          made |-> TRUE]
    ELSE [stores |-> ss, made |-> FALSE]

\* -------------------------------------------------------- PythonASTChunker
\* A content is: whether it is the empty string, what ast.parse does with it
\* ("tree": returns a tree; "SyntaxError": raises SyntaxError or a subclass;
\* "raises": raises another exception, as the RecursionError / MemoryError of
\* a deeply nested expression), the top-level nodes of the tree (type, length
\* of the source segment in characters, number of methods of a class) and
\* the number of lines (len(content.split('\n'))) and whether the text ends
\* with a newline (the last element of the split is then the empty string).
\* A chunk carries whether its content is the empty string.
MIN_CHUNK_SIZE == 50
MAX_CHUNK_SIZE == 2000
FALLBACK_LINES == 100

\* "\n".join(lines[i:i+chunk_size]) is the empty string when the window
\* holds one line and that line is empty: the window of the last line of a
\* text that ends with a newline.
WindowEmpty(content, w) ==
    LET first == (w - 1) * FALLBACK_LINES + 1
    IN first = content.nlines /\ content.nlines > 1 /\ content.trailing

\* _fallback_chunking: one text_chunk per window of 100 lines.
FallbackChunking(content) ==
    LET n == (content.nlines + FALLBACK_LINES - 1) \div FALLBACK_LINES
    IN ListOf([w \in 1..n |-> [type |-> "text_chunk",
                               start_line |-> (w - 1) * FALLBACK_LINES + 1,
                               empty |-> WindowEmpty(content, w)]])

\* _chunk_large_class: one chunk per method of the class.
ChunkLargeClass(node, line) ==
    ListOf([m \in 1..node.methods |-> [type |-> "method", start_line |-> line + m,
                                       empty |-> FALSE]])

\* The chunks the loop over tree.body appends for one top-level node that
\* starts at the given line.
NodeChunks(node, line) ==
    IF node.type = "class"
    THEN IF node.size = 0 THEN << >>
         ELSE IF node.size <= MAX_CHUNK_SIZE
         THEN << [type |-> "class", start_line |-> line, empty |-> FALSE] >>
         ELSE ChunkLargeClass(node, line)
    ELSE IF node.type = "function"
    THEN IF node.size > 0 /\ node.size >= MIN_CHUNK_SIZE
         THEN << [type |-> "function", start_line |-> line, empty |-> FALSE] >>
         ELSE << >>
    ELSE << >>

\* for node in tree.body: ... (the k-th node starts at line 10 * k)
RECURSIVE BodyChunks(_, _)
BodyChunks(nodes, k) ==
    IF k > Len(nodes) THEN << >>
    ELSE NodeChunks(nodes[k], 10 * k) \o BodyChunks(nodes, k + 1)

\* if not chunks and len(content) > 0
NeedsFallback(chunks, content) == chunks = << >> /\ ~content.empty

\* try: tree = ast.parse(content) / except SyntaxError: only SyntaxError is
\* caught, any other exception of ast.parse leaves chunk_file.
ParseEscapes(content) == ~content.empty /\ content.parse = "raises"

\* chunk_file(content, file_path), when it returns.
ChunkFile(content) ==
    IF content.empty THEN << >>
    ELSE IF content.parse = "SyntaxError" THEN FallbackChunking(content)
    ELSE LET chunks == BodyChunks(content.nodes, 1)
         IN IF NeedsFallback(chunks, content) THEN FallbackChunking(content)
            ELSE chunks

\* ------------------------------------- the first answer stream of a chat
\* A text is a sequence of pieces, each a fixed string:
\*   "ws"    a blank                        "fence"  ```json or ```
\*   "{" "}" a brace                        "key"    "missing_file":
\*   "path"  "a.py"                         "null"   null
\*   "word"  Hello
PieceLen(a) ==
    CASE a = "ws" -> 1 [] a = "fence" -> 7 [] a = "{" -> 1 [] a = "}" -> 1
      [] a = "key" -> 15 [] a = "path" -> 6 [] a = "null" -> 4 [] OTHER -> 5

RECURSIVE TextLen(_)
TextLen(t) == IF t = << >> THEN 0 ELSE PieceLen(Head(t)) + TextLen(Tail(t))

\* str.strip()
RECURSIVE StripLeft(_)
StripLeft(t) == IF t # << >> /\ Head(t) = "ws" THEN StripLeft(Tail(t)) ELSE t
RECURSIVE StripRight(_)
StripRight(t) ==
    IF t # << >> /\ t[Len(t)] = "ws" THEN StripRight(SubSeq(t, 1, Len(t) - 1)) ELSE t
Strip(t) == StripRight(StripLeft(t))

\* buffer.strip().replace("```json", "").replace("```", "").strip()
Clean(t) == Strip(SelectSeq(Strip(t), LAMBDA a : a # "fence"))

\* clean_start.startswith("{")
StartsWithBrace(t) == t # << >> /\ Head(t) = "{"

\* "missing_file" in clean_text
MentionsMissingFile(t) == \E i \in 1..Len(t) : t[i] = "key"

\* re.search(r"\{.*?\}", clean_text, re.DOTALL): the text from the first
\* opening brace to the first closing brace after it, None when there is none.
BraceMatch(t) ==
    LET opens == { i \in 1..Len(t) : t[i] = "{" }
        first == IF opens = {} THEN 0 ELSE CHOOSE x \in opens : \A y \in opens : x <= y
        closes == { j \in 1..Len(t) : j > first /\ t[j] = "}" }
    IN IF opens = {} \/ closes = {} THEN None
       ELSE SubSeq(t, first, CHOOSE x \in closes : \A y \in closes : x <= y)

\* json.loads(match.group(0)) followed by data.get("missing_file"):
\* whether the text is a JSON object, and the value found (None when the key
\* is absent or its value is null).
JsonLoads(m) ==
    LET toks == SelectSeq(m, LAMBDA a : a # "ws")
    IN IF toks = <<"{", "}">> THEN [ok |-> TRUE, missing_file |-> None]
       ELSE IF toks = <<"{", "key", "null", "}">> THEN [ok |-> TRUE, missing_file |-> None]
       ELSE IF toks = <<"{", "key", "path", "}">> THEN [ok |-> TRUE, missing_file |-> APY]
       ELSE [ok |-> FALSE, missing_file |-> None]

\* Lines 111-123: what the end of the stream makes of the buffer.
ToolCall(buffer, is_checking_json) ==
    LET clean_text == Clean(buffer)
        m == BraceMatch(clean_text)
    IN IF is_checking_json /\ buffer # << >> /\ MentionsMissingFile(clean_text)
          /\ m # None /\ JsonLoads(m).ok
       THEN [is_tool_call |-> TRUE, missing_file |-> JsonLoads(m).missing_file]
       ELSE [is_tool_call |-> FALSE, missing_file |-> None]

\* --------------------------------------------------------------- the state
VARIABLES
    stores,    \* store_manager.stores: session id -> VectorStore fields
    chroma,    \* the in-process chroma client: collection name -> entries
    created,   \* per session id, how many VectorStore objects were constructed
    client,    \* whether the LLM client is configured (llm_client.client)
    pc,        \* per request: where its coroutine (or worker thread) stands
    loc,       \* per request: the coroutine's local variables
    thr,       \* per request: the locals of its add_documents worker thread
    out,       \* per exploration run: the event yielded last, and the round's plan
    resetBy,   \* per session: the url of the run that reset its store last
    obs,       \* per chat turn: what its reads of the index returned
    chk,       \* a chunk_file call: its content argument and what it returned
    reply      \* the first answer stream of a chat turn and what the turn yielded

vars == <<stores, chroma, created, client, pc, loc, thr, out, resetBy, obs, chk, reply>>

Files == {README, APY, GHOST}

\* pre: what reset_collection found (repo_url, number of documents), kept
\* while the run stands between the reset and the assignment.
NoPre == [url |-> None, ndocs |-> 0]

InitLoc == [kind |-> None, sess |-> None, url |-> None, db |-> 0,
            file_list |-> << >>, round_idx |-> 0, visited |-> {},
            todo |-> << >>, nPlan |-> 0, nReport |-> 0, missing |-> None,
            pre |-> NoPre]

\* The locals of a coroutine that has ended are gone; what stays is which
\* request it was.
Finished(l) == [InitLoc EXCEPT !.kind = l.kind, !.sess = l.sess, !.db = l.db]

NoThread == [docs |-> << >>, file |-> None, i |-> 0, ids |-> << >>, ret |-> None]

\* owners: the sessions whose documents a read returned; covered: whether the
\* lexical index the search used covered exactly the doc_store it read;
\* notice: the explanation fragment the turn yielded when it gave up on the
\* requested file; retries: how many times the turn re-issued the answer
\* request; supp: the supplementary context of the re-issued request;
\* fetches: how many times the turn called get_file_content.
NoObs == [owners |-> {}, covered |-> TRUE, notice |-> None, retries |-> 0, supp |-> << >>,
          fetches |-> 0]

NoEvent == [step |-> None, arg |-> << >>]

NoOut == [last |-> NoEvent, tick |-> 0, planned |-> << >>, ndl |-> 0, nplan |-> 0,
          fetched |-> FALSE]

Ev(step, arg) == [step |-> step, arg |-> arg]

\* No chunk_file call under observation.
NoChunking == [content |-> [empty |-> TRUE, parse |-> "tree", nodes |-> << >>, nlines |-> 1,
                            trailing |-> FALSE],
               chunks |-> << >>, returned |-> FALSE, raised |-> FALSE]

\* No answer stream under observation.
NoReply == [response |-> << >>, n |-> 0, buffer |-> << >>, is_checking_json |-> TRUE,
            is_tool_call |-> FALSE, missing_file |-> None, emitted |-> << >>,
            asked |-> FALSE, ended |-> FALSE]

Init ==
    /\ chk = NoChunking
    /\ reply = NoReply
    /\ stores = << >>
    /\ chroma = [n \in Sessions |-> << >>]
    /\ created = [s \in Sessions |-> 0]
    /\ client \in BOOLEAN
    /\ pc = [p \in Procs |-> "idle"]
    /\ loc = [p \in Procs |-> InitLoc]
    /\ thr = [p \in Procs |-> NoThread]
    /\ out = [p \in Procs |-> NoOut]
    /\ resetBy = [s \in Sessions |-> None]
    /\ obs = [p \in Procs |-> NoObs]

\* yield json.dumps({"step": ..., "message": ...}) of run p
\* last: the event; tick flips at every event; planned and ndl are the file
\* list of the latest plan event and the download events seen since; nplan
\* counts the plan events since the latest thinking event; fetched is
\* whether the fetched event has been yielded.
Emit(p, e) ==
    out' = [out EXCEPT ![p] =
              [last |-> e, tick |-> 1 - @.tick,
               planned |-> IF e.step = "plan" THEN e.arg
                           ELSE IF e.step \in {"finish", "error"} THEN << >>
                           ELSE @.planned,
               ndl |-> IF e.step = "download" THEN @.ndl + 1
                       ELSE IF e.step \in {"plan", "finish", "error"} THEN 0
                       ELSE @.ndl,
               nplan |-> IF e.step = "plan" THEN @.nplan + 1
                         ELSE IF e.step \in {"thinking", "finish", "error"} THEN 0
                         ELSE @.nplan,
               fetched |-> @.fetched \/ e.step = "fetched"]]

\* The event loop runs one coroutine at a time: while a run stands between
\* reset_collection() and the repo_url assignment (no suspension point lies
\* between them) no other coroutine takes a step.
LoopFree(p) == \A q \in Procs \ {p} : pc[q] # "assign"

\* ------------------------------------------------------------ agent_stream
\* GET /analyze -> agent_stream(url, session_id), up to the first yield and
\* the sleep that follows it.
Start(p, s, u) ==
    /\ pc[p] = "idle" /\ LoopFree(p)
    /\ s \in SessionsOf(p) /\ u = UrlOf(p)
    /\ loc' = [loc EXCEPT ![p] = [InitLoc EXCEPT !.kind = "run", !.sess = s, !.url = u]]
    /\ Emit(p, Ev("init", << >>))
    /\ pc' = [pc EXCEPT ![p] = "init"]
    /\ UNCHANGED <<stores, chroma, created, client, chk, reply, thr, obs, resetBy>>

\* vector_db = store_manager.get_store(session_id); vector_db.reset_collection()
AgentReset(p) ==
    /\ pc[p] = "init" /\ LoopFree(p)
    /\ LET s == loc[p].sess
           g == GetStore(stores, created, s)
       IN /\ stores' = [g.stores EXCEPT ![s] = ResetCollection(@)]
          /\ created' = [created EXCEPT ![s] = @ + (IF g.made THEN 1 ELSE 0)]
          /\ chroma' = [chroma EXCEPT ![CollectionName(s)] = << >>]
          /\ loc' = [loc EXCEPT ![p].db = g.stores[s].inst,
                                 ![p].pre = [url |-> g.stores[s].repo_url,
                                             ndocs |-> Len(g.stores[s].doc_store)]]
          /\ resetBy' = [resetBy EXCEPT ![s] = loc[p].url]
    /\ pc' = [pc EXCEPT ![p] = "assign"]
    /\ UNCHANGED <<client, chk, reply, thr, out, obs>>

\* The store fields after the statements that follow the reset:
\* vector_db.repo_url = repo_url.
AssignSkipped(st, u) == st
AssignUrl(st, u) == [st EXCEPT !.repo_url = u]

\* if not file_list: yield error; return
ListingNeverMissing(file_list) == FALSE
ListingMissing(file_list) == file_list = << >>

\* vector_db.repo_url = repo_url; get_repo_structure(repo_url); the listing
\* is empty on failure -> error event, otherwise the fetched event.
AgentAssign(p, ok) ==
    /\ pc[p] = "assign"
    /\ stores' = [stores EXCEPT ![loc[p].sess] = AssignUrl(@, loc[p].url)]
    /\ LET file_list == IF ok THEN Listing(loc[p].url) ELSE << >>
       IN IF ~ListingMissing(file_list)
          THEN /\ loc' = [loc EXCEPT ![p].file_list = file_list,
                                     ![p].round_idx = 0, ![p].visited = {},
                                     ![p].pre = NoPre]
               /\ Emit(p, Ev("fetched", << >>))
               /\ pc' = [pc EXCEPT ![p] = "loop"]
          ELSE /\ loc' = [loc EXCEPT ![p] = Finished(@)]
               /\ Emit(p, Ev("error", << >>))
               /\ pc' = [pc EXCEPT ![p] = "done"]
    /\ UNCHANGED <<chroma, created, client, chk, reply, thr, obs, resetBy>>

\* What the planning request can come back with: text that json.loads
\* rejects, JSON that is not iterable, or a JSON list of paths.
PlannerOutputs ==
    { [kind |-> "garbage", files |-> << >>],
      [kind |-> "scalar", files |-> << >>],
      [kind |-> "list", files |-> <<APY, README>>],
      [kind |-> "list", files |-> <<GHOST, APY, APY>>] }

\* for round_idx in range(MAX_ROUNDS): yield thinking; after the loop:
\* yield generating.
Think(p) ==
    /\ pc[p] = "loop" /\ LoopFree(p)
    /\ IF loc[p].round_idx < MAX_ROUNDS
       THEN /\ Emit(p, Ev("thinking", << >>))
            /\ pc' = [pc EXCEPT ![p] = "prompt"]
       ELSE /\ Emit(p, Ev("generating", << >>))
            /\ pc' = [pc EXCEPT ![p] = "stream"]
    /\ UNCHANGED <<stores, chroma, created, client, chk, reply, loc, thr, obs, resetBy>>

\* if not client: error; else the planning request is issued
\* (await asyncio.to_thread(client.models.generate_content, ...)).
Prompt(p) ==
    /\ pc[p] = "prompt" /\ LoopFree(p)
    /\ IF ~client
       THEN /\ Emit(p, Ev("error", << >>))
            /\ pc' = [pc EXCEPT ![p] = "done"]
            /\ loc' = [loc EXCEPT ![p] = Finished(@)]
       ELSE /\ loc[p].nPlan <= MAX_ROUNDS
            /\ loc' = [loc EXCEPT ![p].nPlan = @ + 1]
            /\ pc' = [pc EXCEPT ![p] = "planning"]
            /\ UNCHANGED out
    /\ UNCHANGED <<stores, chroma, created, client, chk, reply, thr, obs, resetBy>>

\* valid_files = [f for f in target_files if f in file_list and f not in visited_files]
ValidFilesUnfiltered(target, file_list, visited) == target
ValidFiles(target, file_list, visited) ==
    SelectSeq(target, LAMBDA f : f \in Range(file_list) /\ f \notin visited)

\* readme_file = next((f for f in file_list if f.lower().endswith("readme.md")), None)
ReadmeFile(file_list) ==
    IF README \in Range(file_list) THEN README ELSE None

\* The planning request returns (or raises); the answer is parsed and
\* filtered, and the coroutine runs to its next yield: the forced-README
\* plan event, the stop plan event, or the plan event of the round.
Plan(p, answer, raised) ==
    /\ pc[p] = "planning" /\ LoopFree(p)
    /\ LET target == IF answer.kind = "list" THEN answer.files ELSE << >>
           valid == ValidFiles(target, loc[p].file_list, loc[p].visited)
           readme == ReadmeFile(loc[p].file_list)
           forced == loc[p].round_idx = 0 /\ readme # None /\ readme \notin Range(valid)
       IN IF raised \/ answer.kind = "scalar"
          THEN /\ Emit(p, Ev("error", << >>))
               /\ pc' = [pc EXCEPT ![p] = "done"]
               /\ loc' = [loc EXCEPT ![p] = Finished(@)]
          ELSE IF forced
          THEN /\ loc' = [loc EXCEPT ![p].todo = <<readme>> \o valid]
               /\ Emit(p, Ev("plan", <<readme>>))
               /\ pc' = [pc EXCEPT ![p] = "plan2"]
          ELSE IF valid = << >>
          THEN /\ loc' = [loc EXCEPT ![p].todo = << >>]
               /\ Emit(p, Ev("plan", << >>))
               /\ pc' = [pc EXCEPT ![p] = "report"]
          ELSE /\ loc' = [loc EXCEPT ![p].todo = valid]
               /\ Emit(p, Ev("plan", valid))
               /\ pc' = [pc EXCEPT ![p] = "fetch"]
    /\ UNCHANGED <<stores, chroma, created, client, chk, reply, thr, obs, resetBy>>

\* After the forced-README event valid_files is non-empty: the plan event of
\* the round.
Plan2(p) ==
    /\ pc[p] = "plan2" /\ LoopFree(p)
    /\ Emit(p, Ev("plan", loc[p].todo))
    /\ pc' = [pc EXCEPT ![p] = "fetch"]
    /\ UNCHANGED <<stores, chroma, created, client, chk, reply, loc, thr, obs, resetBy>>

\* for round_idx in range(MAX_ROUNDS): the index of the round after round i.
SameRound(i) == i
NextRound(i) == i + 1

\* for file_path in valid_files: yield download; once the list is exhausted:
\* yield indexing and the next round.  loc.todo is the rest of valid_files.
Fetch(p) ==
    /\ pc[p] = "fetch" /\ LoopFree(p)
    /\ IF loc[p].todo = << >>
       THEN /\ Emit(p, Ev("indexing", << >>))
            /\ loc' = [loc EXCEPT ![p].round_idx = NextRound(@)]
            /\ pc' = [pc EXCEPT ![p] = "loop"]
       ELSE /\ Emit(p, Ev("download", <<Head(loc[p].todo)>>))
            /\ loc' = loc
            /\ pc' = [pc EXCEPT ![p] = "fetching"]
    /\ UNCHANGED <<stores, chroma, created, client, chk, reply, thr, obs, resetBy>>

\* Locals of add_documents(documents, metadatas) at its entry, for the
\* chunks of file f fetched from u.
ThreadFor(u, f) ==
    [docs |-> FileChunks(u, f), file |-> f, i |-> 0, ids |-> << >>, ret |-> None]

\* if not content: continue -- the locals of the run after the skip.
SkipVisited(l) == [l EXCEPT !.todo = Tail(@), !.visited = @ \cup {Head(l.todo)}]
Skip(l) == [l EXCEPT !.todo = Tail(@)]

\* content = get_file_content(repo_url, file_path); empty -> continue;
\* otherwise the file is visited, chunked (await to_thread(chunk_file)) and
\* add_documents is handed to a worker thread.
Fetched(p, ok) ==
    /\ pc[p] = "fetching" /\ LoopFree(p)
    /\ LET f == Head(loc[p].todo)
       IN IF ~ok
          THEN /\ loc' = [loc EXCEPT ![p] = Skip(@)]
               /\ pc' = [pc EXCEPT ![p] = "fetch"]
               /\ thr' = thr
          ELSE /\ loc' = [loc EXCEPT ![p].visited = @ \cup {f}]
               /\ thr' = [thr EXCEPT ![p] = ThreadFor(loc[p].url, f)]
               /\ pc' = [pc EXCEPT ![p] = "adding"]
    /\ UNCHANGED <<stores, chroma, created, client, chk, reply, out, resetBy, obs>>

\* ------------------------------------------- add_documents (worker thread)
\* One iteration of `for i, doc in enumerate(documents)`: the file is
\* recorded, the document appended under id f"{file}_{len(doc_store) + i}",
\* and its id kept for the dense index when embed_text returned a vector.
AddOneUnrecorded(st, t, owner) ==
    [st EXCEPT !.doc_store = Append(@, [id |-> <<t.file, Len(st.doc_store) + t.i>>,
                                        content |-> t.docs[t.i + 1],
                                        file |-> t.file, owner |-> owner])]
AddOne(st, t, owner) ==
    [st EXCEPT !.indexed_files = @ \cup {t.file},
               !.doc_store = Append(@, [id |-> <<t.file, Len(st.doc_store) + t.i>>,
                                        content |-> t.docs[t.i + 1],
                                        file |-> t.file, owner |-> owner])]

ThreadAddDoc(p, embOk) ==
    /\ pc[p] = "adding"
    /\ thr[p].i < Len(thr[p].docs)
    /\ embOk => client
    /\ LET s == loc[p].sess
           t == thr[p]
       IN /\ stores' = [stores EXCEPT ![s] = AddOne(@, t, s)]
          /\ thr' = [thr EXCEPT ![p].i = @ + 1,
                                ![p].ids = IF embOk
                                           THEN Append(@, <<t.file, Len(stores[s].doc_store) + t.i>>)
                                           ELSE @]
    /\ UNCHANGED <<chroma, created, client, chk, reply, pc, loc, out, resetBy, obs>>

\* tokenized_corpus = [self._tokenize(doc['content']) for doc in self.doc_store]
RebuildBm25(st) ==
    [st EXCEPT !.bm25 = [built |-> TRUE,
                         corpus |-> [i \in 1..Len(st.doc_store) |->
                                       Tokenize(st.doc_store[i].content)]]]

\* collection.add(documents=documents, embeddings=embeddings,
\*                metadatas=metadatas, ids=ids): chroma rejects argument
\* lists of unequal length with a ValueError.
AddRejected(t) == Len(t.ids) # Len(t.docs)

\* The entries collection.add stores when it accepts the call.
NewEntries(t, owner) ==
    [k \in 1..Len(t.ids) |-> [id |-> t.ids[k], content |-> t.docs[k],
                              file |-> t.file, owner |-> owner]]

\* The tail of add_documents: `if embeddings: collection.add(...)`, then the
\* BM25 rebuild.  An id that is already in the collection is either
\* rejected (exception) or skipped, depending on the chroma release.
ThreadAddFinish(p, dupRaises) ==
    /\ pc[p] = "adding"
    /\ thr[p].i = Len(thr[p].docs)
    /\ LET s == loc[p].sess
           t == thr[p]
           coll == chroma[CollectionName(s)]
           fresh == SelectSeq(NewEntries(t, s),
                              LAMBDA e : \A j \in 1..Len(coll) : coll[j].id # e.id)
           dup == Len(fresh) # Len(t.ids)
           raises == t.ids # << >> /\ (AddRejected(t) \/ (dup /\ dupRaises))
       IN /\ dupRaises => (t.ids # << >> /\ ~AddRejected(t) /\ dup)
          /\ IF raises
             THEN /\ UNCHANGED <<stores, chroma>>
                  /\ thr' = [thr EXCEPT ![p].ret = "raised"]
             ELSE /\ chroma' = IF t.ids # << >>
                               THEN [chroma EXCEPT ![CollectionName(s)] = @ \o fresh]
                               ELSE chroma
                  /\ stores' = [stores EXCEPT ![s] = RebuildBm25(@)]
                  /\ thr' = [thr EXCEPT ![p].ret = "ok"]
    /\ pc' = [pc EXCEPT ![p] = "resume"]
    /\ UNCHANGED <<created, client, chk, reply, loc, out, resetBy, obs>>

\* await asyncio.to_thread(vector_db.add_documents, ...) returns to the
\* run: an exception reaches the outer handler (error event), otherwise the
\* for loop goes on with the next file.
ResumeRun(p) ==
    /\ pc[p] = "resume" /\ loc[p].kind = "run" /\ LoopFree(p)
    /\ IF thr[p].ret = "raised"
       THEN /\ Emit(p, Ev("error", << >>))
            /\ pc' = [pc EXCEPT ![p] = "done"]
            /\ loc' = [loc EXCEPT ![p] = Finished(@)]
       ELSE /\ loc' = [loc EXCEPT ![p].todo = Tail(@)]
            /\ pc' = [pc EXCEPT ![p] = "fetch"]
            /\ UNCHANGED out
    /\ thr' = [thr EXCEPT ![p] = NoThread]
    /\ UNCHANGED <<stores, chroma, created, client, chk, reply, obs, resetBy>>

\* --------------------------------------------------- agent_stream: report
\* After `break`: yield generating.
ReportNoEvent(p) ==
    /\ pc[p] = "report" /\ LoopFree(p)
    /\ pc' = [pc EXCEPT ![p] = "stream"]
    /\ UNCHANGED <<stores, chroma, created, client, chk, reply, loc, thr, out, obs, resetBy>>
Report(p) ==
    /\ pc[p] = "report" /\ LoopFree(p)
    /\ Emit(p, Ev("generating", << >>))
    /\ pc' = [pc EXCEPT ![p] = "stream"]
    /\ UNCHANGED <<stores, chroma, created, client, chk, reply, loc, thr, obs, resetBy>>

\* for chunk in stream: yield report_chunk
StreamChunk(p) ==
    /\ pc[p] = "stream" /\ LoopFree(p)
    /\ loc[p].nReport < MaxReportChunks
    /\ loc' = [loc EXCEPT ![p].nReport = @ + 1]
    /\ Emit(p, Ev("report_chunk", << >>))
    /\ UNCHANGED <<stores, chroma, created, client, chk, reply, pc, thr, obs, resetBy>>

\* The stream is exhausted: yield finish.
StreamEnd(p) ==
    /\ pc[p] \in {"stream", "final"} /\ LoopFree(p)
    /\ Emit(p, Ev("finish", << >>))
    /\ pc' = [pc EXCEPT ![p] = "done"]
    /\ loc' = [loc EXCEPT ![p] = Finished(@)]
    /\ UNCHANGED <<stores, chroma, created, client, chk, reply, thr, obs, resetBy>>

\* The stream raises: the non-streaming request is made instead; its text is
\* one report_chunk, its exception reaches the outer handler.
StreamRaise(p, fallbackOk) ==
    /\ pc[p] = "stream" /\ LoopFree(p)
    /\ IF fallbackOk
       THEN /\ Emit(p, Ev("report_chunk", << >>))
            /\ pc' = [pc EXCEPT ![p] = "final"]
            /\ loc' = loc
       ELSE /\ Emit(p, Ev("error", << >>))
            /\ pc' = [pc EXCEPT ![p] = "done"]
            /\ loc' = [loc EXCEPT ![p] = Finished(@)]
    /\ UNCHANGED <<stores, chroma, created, client, chk, reply, thr, obs, resetBy>>

\* ------------------------------------------------------ process_chat_stream
Owners(docs) == { docs[i].owner : i \in 1..Len(docs) }

\* Whether the lexical index of st covers exactly the documents of st.
Covered(st) ==
    IF st.doc_store = << >> THEN ~st.bm25.built
    ELSE st.bm25 = RebuildBm25(st).bm25

\* What the first answer request of a chat turn comes back with: an answer,
\* a transport failure, or {"missing_file": f}.
ChatResponses == {"answer", "raise"} \cup Files

\* vector_db = get_store(session_id); search_hybrid(user_query, top_k=5);
\* the answer request is streamed (synchronously) up to the first fragment
\* the turn yields.
ChatStart(p, s, q, embOk, resp) ==
    /\ pc[p] = "idle" /\ LoopFree(p)
    /\ s \in SessionsOf(p)
    /\ embOk => client
    /\ resp # "answer" => client
    /\ LET g == GetStore(stores, created, s)
           st == g.stores[s]
           found == SearchHybrid(st, chroma[CollectionName(s)], q, CHAT_TOP_K, embOk)
       IN /\ stores' = g.stores
          /\ created' = [created EXCEPT ![s] = @ + (IF g.made THEN 1 ELSE 0)]
          /\ obs' = [obs EXCEPT ![p] = [NoObs EXCEPT !.owners = Owners(found),
                                                     !.covered = Covered(st)]]
          /\ loc' = [loc EXCEPT ![p] = [InitLoc EXCEPT !.kind = "chat", !.sess = s,
                                          !.db = st.inst,
                                          !.missing = IF resp \in Files THEN resp ELSE None]]
    /\ pc' = [pc EXCEPT ![p] = IF resp \in Files THEN "c_check" ELSE "done"]
    /\ UNCHANGED <<chroma, client, chk, reply, thr, out, resetBy>>

\* _build_context(new_docs_content): file and content of each document.
BuildContext(docs) ==
    ListOf([i \in 1..Len(docs) |-> [file |-> docs[i].file, content |-> docs[i].content]])

\* The second generation: the answer request is re-issued with the context
\* built from new_docs_content.
ReissueBare(o, docs) == [o EXCEPT !.owners = @ \cup Owners(docs), !.retries = @ + 1]
Reissue(o, docs) ==
    [o EXCEPT !.owners = @ \cup Owners(docs), !.retries = @ + 1, !.supp = BuildContext(docs)]

\* if not vector_db.repo_url
UrlNeverMissing(st) == FALSE
UrlMissing(st) == st.repo_url = None

\* if not vector_db.repo_url: warn and return; if missing_file in
\* vector_db.indexed_files: the stored chunks are used when there are any;
\* otherwise the file is downloaded.
ChatCheck(p) ==
    /\ pc[p] = "c_check" /\ LoopFree(p)
    /\ LET st == stores[loc[p].sess]
           stored == GetDocumentsByFile(st, loc[p].missing)
       IN IF UrlMissing(st)
          THEN /\ pc' = [pc EXCEPT ![p] = "done"]
               /\ loc' = [loc EXCEPT ![p] = Finished(@)]
               /\ obs' = [obs EXCEPT ![p].notice = "repo_url_lost"]
          ELSE IF loc[p].missing \in st.indexed_files /\ stored # << >>
          THEN /\ pc' = [pc EXCEPT ![p] = "done"]
               /\ loc' = [loc EXCEPT ![p] = Finished(@)]
               /\ obs' = [obs EXCEPT ![p] = Reissue(@, stored)]
          ELSE /\ pc' = [pc EXCEPT ![p] = "c_download"]
               /\ UNCHANGED <<loc, obs>>
    /\ UNCHANGED <<stores, chroma, created, client, chk, reply, thr, out, resetBy>>

\* _download_and_index: get_file_content(vector_db.repo_url, file_path);
\* no content or no chunks -> False; otherwise add_documents is handed to a
\* worker thread.
ChatDownload(p, ok) ==
    /\ pc[p] = "c_download" /\ LoopFree(p)
    /\ LET u == stores[loc[p].sess].repo_url
           f == loc[p].missing
       IN /\ ok => (u # None /\ FileChunks(u, f) # << >>)
          /\ IF ok
             THEN /\ thr' = [thr EXCEPT ![p] = ThreadFor(u, f)]
                  /\ loc' = [loc EXCEPT ![p].url = u]
                  /\ pc' = [pc EXCEPT ![p] = "adding"]
             ELSE /\ pc' = [pc EXCEPT ![p] = "done"]
                  /\ loc' = [loc EXCEPT ![p] = Finished(@)]
                  /\ thr' = thr
    /\ obs' = IF ok THEN [obs EXCEPT ![p].fetches = @ + 1]
              ELSE [obs EXCEPT ![p].fetches = @ + 1, ![p].notice = "download_failed"]
    /\ UNCHANGED <<stores, chroma, created, client, chk, reply, out, resetBy>>

\* add_documents returned to _download_and_index: an exception makes it
\* return False; on success the chunks are pulled with
\* get_documents_by_file and the answer request is re-issued.
ResumeChat(p) ==
    /\ pc[p] = "resume" /\ loc[p].kind = "chat" /\ LoopFree(p)
    /\ obs' = IF thr[p].ret = "raised"
              THEN [obs EXCEPT ![p].notice = "download_failed"]
              ELSE [obs EXCEPT ![p] =
                      Reissue(@, GetDocumentsByFile(stores[loc[p].sess], loc[p].missing))]
    /\ pc' = [pc EXCEPT ![p] = "done"]
    /\ loc' = [loc EXCEPT ![p] = Finished(@)]
    /\ thr' = [thr EXCEPT ![p] = NoThread]
    /\ UNCHANGED <<stores, chroma, created, client, chk, reply, out, resetBy>>

\* ------------------------------------------------------------ the program
\* No other request is in progress.
Quiet(p) == \A q \in Procs \ {p} : pc[q] \in {"idle", "done"}

\* Steps of request p other than its admission, with the outcomes of the
\* external calls drawn from the given sets: what the planner returns, and
\* whether a listing / fetch / embedding call succeeds.  RunSteps are the
\* steps of an exploration run and of add_documents, ChatSteps those of a
\* chat turn.
RunSteps(p, planner, oks) ==
    \/ AgentReset(p)
    \/ \E ok \in oks : AgentAssign(p, ok)
    \/ Think(p)
    \/ Prompt(p)
    \/ \E answer \in planner, r \in BOOLEAN : Plan(p, answer, r)
    \/ Plan2(p)
    \/ Fetch(p)
    \/ \E ok \in oks : Fetched(p, ok)
    \/ \E embOk \in oks : ThreadAddDoc(p, embOk)
    \/ \E dupRaises \in BOOLEAN : ThreadAddFinish(p, dupRaises)
    \/ ResumeRun(p)
    \/ Report(p)
    \/ StreamChunk(p)
    \/ StreamEnd(p)
    \/ \E ok \in BOOLEAN : StreamRaise(p, ok)

ChatSteps(p) ==
    \/ ChatCheck(p)
    \/ \E ok \in BOOLEAN : ChatDownload(p, ok)
    \/ ResumeChat(p)

Steps(p, planner, oks) == RunSteps(p, planner, oks) \/ ChatSteps(p)

Admit(p, responses, oks) ==
    \/ \E s \in Sessions, u \in Urls : Start(p, s, u)
    \/ \E s \in Sessions, q \in Queries, embOk \in oks, resp \in responses :
          ChatStart(p, s, q, embOk, resp)

\* Requests served one after the other, every outcome of the external calls.
Next == \E p \in Procs : \/ Quiet(p) /\ Admit(p, ChatResponses, BOOLEAN)
                         \/ Steps(p, PlannerOutputs, BOOLEAN)

Spec == Init /\ [][Next]_vars

\* The same, with every exploration run that can take a step eventually
\* taking one: the event loop resumes a coroutine whose await has returned,
\* a worker thread runs on, and every external call returns (with some
\* outcome).
FairSpec == Spec /\ \A p \in Procs : WF_vars(RunSteps(p, PlannerOutputs, BOOLEAN))

\* Overlapping requests, on the paths where listing, fetch and embedding
\* succeed: the
\* planner answers with the list [a.py, README.md] or with text that does
\* not parse, the chat model answers or asks for a.py.
ConcPlannerOutputs == { o \in PlannerOutputs : o.kind = "garbage" \/ o.files = <<APY, README>> }

ConcNext == \E p \in Procs : \/ Admit(p, {"answer", APY}, {TRUE})
                             \/ Steps(p, ConcPlannerOutputs, {TRUE})

ConcSpec == Init /\ [][ConcNext]_vars

\* ------------------------------------------------- chunk_file on its own
MaxNodes == 2
MaxMethods == 2

NodeSizes == {0, MIN_CHUNK_SIZE - 1, MIN_CHUNK_SIZE, MAX_CHUNK_SIZE, MAX_CHUNK_SIZE + 1}
LineCounts == {1, FALLBACK_LINES, FALLBACK_LINES + 1}

Nodes ==
    { [type |-> "class", size |-> z, methods |-> m] : z \in NodeSizes, m \in 0..MaxMethods }
    \cup { [type |-> t, size |-> z, methods |-> 0] : t \in {"function", "other"}, z \in NodeSizes }

Bodies == UNION { [1..n -> Nodes] : n \in 0..MaxNodes }

\* Line count and whether the text ends with a newline: a text of one line
\* is the line itself.
LineShapes == { x \in LineCounts \X BOOLEAN : x[1] > 1 \/ ~x[2] }

\* The contents chunk_file is called with: the empty string, texts that do
\* not parse (either way), and texts that parse to a body of up to MaxNodes
\* nodes.
Contents ==
    { [empty |-> TRUE, parse |-> "tree", nodes |-> << >>, nlines |-> 1, trailing |-> FALSE] }
    \cup { [empty |-> FALSE, parse |-> e, nodes |-> << >>, nlines |-> x[1],
            trailing |-> x[2]] : e \in {"SyntaxError", "raises"}, x \in LineShapes }
    \cup { [empty |-> FALSE, parse |-> "tree", nodes |-> b, nlines |-> x[1],
            trailing |-> x[2]] : b \in Bodies, x \in LineShapes }

ChunkInit ==
    /\ chk \in { [content |-> c, chunks |-> << >>, returned |-> FALSE, raised |-> FALSE] :
                  c \in Contents }
    /\ reply = NoReply
    /\ stores = << >>
    /\ chroma = [n \in Sessions |-> << >>]
    /\ created = [s \in Sessions |-> 0]
    /\ client = TRUE
    /\ pc = [p \in Procs |-> "idle"]
    /\ loc = [p \in Procs |-> InitLoc]
    /\ thr = [p \in Procs |-> NoThread]
    /\ out = [p \in Procs |-> NoOut]
    /\ resetBy = [s \in Sessions |-> None]
    /\ obs = [p \in Procs |-> NoObs]

\* chunks = chunker.chunk_file(content, file_path): the call returns the
\* chunks or ends with the exception ast.parse raised.
Chunk ==
    /\ ~chk.returned
    /\ chk' = IF ParseEscapes(chk.content)
              THEN [chk EXCEPT !.raised = TRUE, !.returned = TRUE]
              ELSE [chk EXCEPT !.chunks = ChunkFile(chk.content), !.returned = TRUE]
    /\ UNCHANGED <<stores, chroma, created, client, pc, loc, thr, out, resetBy, obs, reply>>

ChunkNext == Chunk

ChunkSpec == ChunkInit /\ [][ChunkNext]_vars

\* ------------------------------------- the first answer stream on its own
MaxPieces == 4

Pieces == {"ws", "fence", "{", "}", "key", "path", "null", "word"}

\* The non-empty responses the answer request streams, one piece per chunk.
Responses == UNION { [1..k -> Pieces] : k \in 1..MaxPieces }

ReplyInit ==
    /\ reply \in { [NoReply EXCEPT !.response = r] : r \in Responses }
    /\ chk = NoChunking
    /\ stores = << >>
    /\ chroma = [n \in Sessions |-> << >>]
    /\ created = [s \in Sessions |-> 0]
    /\ client = TRUE
    /\ pc = [p \in Procs |-> "idle"]
    /\ loc = [p \in Procs |-> InitLoc]
    /\ thr = [p \in Procs |-> NoThread]
    /\ out = [p \in Procs |-> NoOut]
    /\ resetBy = [s \in Sessions |-> None]
    /\ obs = [p \in Procs |-> NoObs]

\* One iteration of `for chunk in stream`.
Receive ==
    /\ ~reply.ended /\ reply.n < Len(reply.response)
    /\ LET text_chunk == reply.response[reply.n + 1]
           buffer == reply.buffer \o <<text_chunk>>
           clean_start == Clean(buffer)
       IN reply' =
            IF reply.is_checking_json
            THEN IF TextLen(clean_start) < 5 \/ StartsWithBrace(clean_start)
                 THEN [reply EXCEPT !.n = @ + 1, !.buffer = buffer]
                 ELSE [reply EXCEPT !.n = @ + 1, !.buffer = << >>,
                                    !.emitted = @ \o buffer,
                                    !.is_checking_json = FALSE]
            ELSE [reply EXCEPT !.n = @ + 1, !.emitted = @ \o <<text_chunk>>]
    /\ UNCHANGED <<stores, chroma, created, client, pc, loc, thr, out, resetBy, obs, chk>>

\* The stream has ended: the buffer is examined, yielded unless it was a
\* tool call, and the turn announces the missing file when it has one.
StreamOver ==
    /\ ~reply.ended /\ reply.n = Len(reply.response)
    /\ LET t == ToolCall(reply.buffer, reply.is_checking_json)
           pending == reply.is_checking_json /\ reply.buffer # << >>
       IN reply' = [reply EXCEPT
                      !.is_tool_call = t.is_tool_call,
                      !.missing_file = t.missing_file,
                      !.emitted = IF pending /\ ~t.is_tool_call THEN @ \o reply.buffer ELSE @,
                      !.asked = t.is_tool_call /\ t.missing_file # None,
                      !.ended = TRUE]
    /\ UNCHANGED <<stores, chroma, created, client, pc, loc, thr, out, resetBy, obs, chk>>

ReplyNext == Receive \/ StreamOver

ReplySpec == ReplyInit /\ [][ReplyNext]_vars

\* ================================================================== claims
\* Every read a client can make of the index of session s.
Reads(st, coll) ==
    UNION ({ Owners(SearchHybrid(st, coll, q, CHAT_TOP_K, e)) : q \in Queries, e \in BOOLEAN }
           \cup { Owners(GetDocumentsByFile(st, f)) : f \in Files })

\* The step is taken by request p: every action moves the coroutine or the
\* worker thread of the request that takes it, and of no other.
StepOf(p) == pc'[p] # pc[p] \/ loc'[p] # loc[p] \/ thr'[p] # thr[p]

IsolatedReads ==
    /\ \A s \in DOMAIN stores : Reads(stores[s], chroma[CollectionName(s)]) \subseteq {s}
    /\ \A p \in Procs : obs[p].owners \subseteq {loc[p].sess}

IsolatedWrites ==
    \A p \in Procs : StepOf(p) =>
        \A s \in (DOMAIN stores) \ {loc'[p].sess} :
            /\ s \in DOMAIN stores'
            /\ stores'[s] = stores[s]
            /\ chroma'[CollectionName(s)] = chroma[CollectionName(s)]

\* C1: session isolation.  A read (search with any query, getByFile with any
\* path) of the index of a session returns only documents that were added to
\* that session, and a step of a request on one session leaves the store
\* (doc_store, indexed_files, repo_url, indexes) of every other session as
\* it was.
C1_SessionIsolation == []IsolatedReads /\ [][IsolatedWrites]_vars

\* C1 witness: both sessions hold documents (added by two runs), and the
\* reads of a session return documents, all of that session.
C1_Witness ==
    /\ {"s1", "s2"} \subseteq DOMAIN stores
    /\ stores["s1"].doc_store # << >> /\ chroma[CollectionName("s1")] # << >>
    /\ stores["s2"].doc_store # << >>
    /\ \E s \in Sessions : Reads(stores[s], chroma[CollectionName(s)]) = {s}

\* C2: single creation.  At most one VectorStore is ever constructed per
\* session id, every get_store call for the id returned that instance, and a
\* registered instance is never dropped or replaced.
C2_SingleCreation ==
    [][ /\ \A s \in Sessions : created'[s] <= 1
        /\ \A p \in Procs : pc'[p] \notin {"idle", "init"} =>
              /\ loc'[p].sess \in DOMAIN stores'
              /\ loc'[p].db = stores'[loc'[p].sess].inst
        /\ \A s \in DOMAIN stores :
              s \in DOMAIN stores' /\ stores'[s].inst = stores[s].inst ]_vars

\* C2 witness: two requests in progress at once hold the store of the same
\* session, which was constructed once.
C2_Witness ==
    /\ loc["p1"].sess = loc["p2"].sess
    /\ loc["p1"].db = 1 /\ loc["p2"].db = 1
    /\ pc["p1"] \notin {"idle", "init", "done"} /\ pc["p2"] \notin {"idle", "init", "done"}
    /\ created[loc["p1"].sess] = 1

\* C3: outside the reset-then-assign step of a run's Init, the repo_url of a
\* session that a run has reset is the url passed to the run that reset it
\* last (it is never left cleared).
C3_RepoUrlAfterReset ==
    \A s \in Sessions :
        (resetBy[s] # None /\ \A p \in Procs : ~(pc[p] = "assign" /\ loc[p].sess = s))
        => (s \in DOMAIN stores /\ stores[s].repo_url = resetBy[s])

\* C3 witness: a second run has reset session s1 and assigned its url while
\* the first run, started with another url, is still adding documents.
C3_Witness ==
    /\ loc["p1"].sess = "s1" /\ loc["p2"].sess = "s1"
    /\ loc["p1"].kind = "run" /\ loc["p2"].kind = "run"
    /\ pc["p1"] \in {"adding", "resume", "fetch"}
    /\ pc["p2"] \in {"loop", "done"}
    /\ resetBy["s1"] = "u2" /\ stores["s1"].repo_url = "u2"

\* The step in which run p executes reset_collection().
ResetStep(p) == pc[p] = "init" /\ pc'[p] = "assign"

\* C4 (as claimed): reset() leaves repo_url as it was.
C4_ResetKeepsRepoUrl ==
    [][\A p \in Procs :
         (ResetStep(p) /\ loc[p].sess \in DOMAIN stores)
         => stores'[loc[p].sess].repo_url = stores[loc[p].sess].repo_url]_vars

\* C4 (amended): reset() clears the dense index, the lexical index, the
\* document store and indexed_files, and it clears repo_url as well: after
\* reset() the session's repo_url is unset.
C4_ResetClearsAll ==
    [][\A p \in Procs : ResetStep(p) =>
         LET st == stores'[loc[p].sess]
         IN /\ chroma'[CollectionName(loc[p].sess)] = << >>
            /\ ~st.bm25.built
            /\ st.doc_store = << >>
            /\ st.indexed_files = {}
            /\ st.repo_url = None]_vars

\* C4 / C5 witness precondition: the reset found a url and documents.
AfterResetOfUsedStore(p) ==
    pc[p] = "assign" /\ loc[p].pre.url # None /\ loc[p].pre.ndocs > 0

C4_Witness == \E p \in Procs : AfterResetOfUsedStore(p) /\ stores[loc[p].sess].repo_url = None

\* C5: reset completeness.  In the state reset() produces, search returns
\* the empty sequence for every query (whether or not the query embeds) and
\* getByFile returns the empty sequence for every path.
C5_ResetCompleteness ==
    [][\A p \in Procs : ResetStep(p) =>
         LET st == stores'[loc[p].sess]
             coll == chroma'[CollectionName(loc[p].sess)]
         IN /\ \A q \in Queries, e \in BOOLEAN :
                  SearchHybrid(st, coll, q, CHAT_TOP_K, e) = << >>
            /\ \A f \in Files : GetDocumentsByFile(st, f) = << >>]_vars

C5_Witness ==
    \E p \in Procs : AfterResetOfUsedStore(p) /\ loc[p].pre.ndocs >= 3
                     /\ GetDocumentsByFile(stores[loc[p].sess], APY) = << >>

\* C6: within one session, no two add / reset operations are in progress at
\* the same time.  (An add is in progress while its worker thread runs; a
\* reset, from the reset to the assignment that completes Init.)
C6_AddResetExclusive ==
    \A p, q \in Procs :
        (p # q /\ loc[p].sess = loc[q].sess)
        => ~(pc[p] \in {"adding", "assign"} /\ pc[q] \in {"adding", "assign"})

\* C7: the search of a chat turn reads a lexical index that covers exactly
\* the documents of the document store it reads.
C7_ReadersSeeWholeMutations == \A p \in Procs : obs[p].covered

\* What C8 asks of a finished add: it returned normally, its chunks are the
\* last documents of the store, the lexical index covers the store, and the
\* dense index holds exactly the chunks that embedded.
AddCompleted(p) ==
    LET t == thr[p]
        st == stores[loc[p].sess]
        coll == chroma[CollectionName(loc[p].sess)]
        n == Len(st.doc_store)
    IN /\ t.ret = "ok"
       /\ n >= Len(t.docs)
       /\ \A k \in 1..Len(t.docs) : st.doc_store[n - Len(t.docs) + k].content = t.docs[k]
       /\ Covered(st)
       /\ \A k \in 1..Len(t.docs) :
             LET d == st.doc_store[n - Len(t.docs) + k]
             IN (\E j \in 1..Len(t.ids) : t.ids[j] = d.id)
                <=> (\E j \in 1..Len(coll) : coll[j].id = d.id /\ coll[j].content = d.content)

\* C8: whichever chunks of a batch fail to embed, add completes without
\* error with every chunk stored, the lexical index rebuilt over the whole
\* store, and exactly the embedded chunks in the dense index.
C8_AddSurvivesEmbeddingFailure ==
    \A p \in Procs : pc[p] = "resume" => AddCompleted(p)

\* ------------------------------------------------------------------- C9
\* Run p yields an event in this step.
Yields(p) == out'[p].tick # out[p].tick

\* The events that may follow event a when the events of a run keep the
\* order init, fetched, then per round thinking, plan, one download per
\* planned file, indexing, and after the last round generating, report
\* chunks, with finish or error as the one terminal event.
StrictFollowers(o) ==
    LET a == o.last.step
    IN CASE a = None -> {"init"}
         [] a = "init" -> {"fetched", "error"}
         [] a = "fetched" -> {"thinking", "error"}
         [] a = "thinking" -> {"plan", "error"}
         [] a = "plan" -> (IF o.planned = << >> THEN {"indexing"} ELSE {"download"})
                          \cup {"error"}
         [] a = "download" -> (IF o.ndl = Len(o.planned) THEN {"indexing"} ELSE {"download"})
                              \cup {"error"}
         [] a = "indexing" -> {"thinking", "generating", "error"}
         [] a = "generating" -> {"report_chunk", "finish", "error"}
         [] a = "report_chunk" -> {"report_chunk", "finish", "error"}
         [] OTHER -> {}

\* The same order, except that the first round may yield two plan events
\* (the forced-README notice, then the plan of the round), and that a round
\* whose plan is empty is followed by generating, with no indexing event.
Followers(o, first_round) ==
    LET a == o.last.step
    IN IF a = "plan"
       THEN (IF o.planned = << >> THEN {"generating"} ELSE {"download"})
            \cup (IF first_round /\ o.nplan = 1 /\ o.planned = <<README>> THEN {"plan"} ELSE {})
            \cup {"error"}
       ELSE StrictFollowers(o)

\* A run that has ended has yielded finish or error last.
EndsWithTerminal ==
    \A p \in Procs : (pc[p] = "done" /\ loc[p].kind = "run")
                     => out[p].last.step \in {"finish", "error"}

\* C9 (as claimed): the events of a run come in the order init, fetched,
\* then per round thinking, plan, one download per planned file, indexing,
\* then generating and report chunks, and the run ends with exactly one
\* terminal event, finish or error, after which it yields nothing.
C9_StrictEventOrder ==
    /\ []EndsWithTerminal
    /\ [][\A p \in Procs : Yields(p) =>
            out'[p].last.step \in StrictFollowers(out[p])]_vars

\* C9 (amended): the same order and the same single terminal event, where in
\* the first round a forced-README plan event may precede the round's plan
\* event, and a round that plans no file yields thinking, plan and then
\* generating, without an indexing event.
C9_EventOrder ==
    /\ []EndsWithTerminal
    /\ [][\A p \in Procs : Yields(p) =>
            out'[p].last.step \in Followers(out[p], loc[p].round_idx = 0)]_vars

\* C9 witness: a run has read the README in its first round, has gone on to
\* its report and has yielded a report chunk.
C9_Witness ==
    \E p \in Procs : /\ pc[p] = "stream" /\ out[p].last.step = "report_chunk"
                     /\ loc[p].round_idx >= 1 /\ README \in loc[p].visited

\* ------------------------------------------------------------------ C10
\* C10: the exploration loop is bounded.  A run issues at most MAX_ROUNDS
\* planning requests, and when every external call returns, a run that has
\* started reaches its terminal event.
C10_BoundedExploration ==
    /\ [](\A p \in Procs : loc[p].nPlan <= MAX_ROUNDS)
    /\ \A p \in Procs : (pc[p] = "init") ~> (pc[p] = "done" /\ out[p].last.step \in {"finish", "error"})

\* C10 witness: a run is in its third round, its third planning request
\* issued.
C10_Witness ==
    \E p \in Procs : pc[p] = "planning" /\ loc[p].nPlan = MAX_ROUNDS
                     /\ loc[p].round_idx = MAX_ROUNDS - 1

\* ------------------------------------------------------------------ C11
\* A run that has ended stays ended: it takes no further step.
EndedStaysEnded ==
    \A p \in Procs : pc[p] = "done" => (pc'[p] = "done" /\ out'[p] = out[p])

\* C11: when the listing obtained at Init is empty, the step that obtained
\* it ends the run with the error event: no fetched event, no planning
\* request, no download and no add precede or follow it, and the listing is
\* not asked for again.
C11_EmptyListingIsError ==
    [][ /\ EndedStaysEnded
        /\ \A p \in Procs :
              (pc[p] = "assign" /\ StepOf(p) /\ loc'[p].file_list = << >>) =>
                 /\ pc'[p] = "done"
                 /\ out'[p].last.step = "error" /\ ~out'[p].fetched
                 /\ loc[p].nPlan = 0 /\ out[p].ndl = 0
                 /\ thr'[p] = NoThread
                 /\ stores'[loc[p].sess].doc_store = << >>
                 /\ chroma' = chroma ]_vars

\* C11 witness: a run has ended with error without having yielded fetched;
\* its session's store holds the url and no document.
C11_Witness ==
    \E p \in Procs : /\ pc[p] = "done" /\ loc[p].kind = "run"
                     /\ out[p].last.step = "error" /\ ~out[p].fetched
                     /\ stores[loc[p].sess].doc_store = << >>

\* ------------------------------------------------------------------ C12
\* Run p yields the error event from its exception handler in this step (the
\* empty listing and the missing client end the run with a plain return).
ErrorByException(p) ==
    Yields(p) /\ out'[p].last.step = "error" /\ pc[p] \notin {"assign", "prompt"}

\* Document d of the store is returned by getByFile for its file and by a
\* search for its own text.
Retrievable(st, coll, d) ==
    /\ \E j \in 1..Len(GetDocumentsByFile(st, d.file)) :
          GetDocumentsByFile(st, d.file)[j].content = d.content
    /\ \E e \in BOOLEAN :
          LET found == SearchHybrid(st, coll, d.content, Len(st.doc_store), e)
          IN \E j \in 1..Len(found) : found[j].id = d.id /\ found[j].content = d.content

\* The error event leaves the session's index as the exception found it.
ErrorKeepsIndex ==
    \A p \in Procs : ErrorByException(p) =>
        /\ stores'[loc[p].sess] = stores[loc[p].sess]
        /\ chroma'[CollectionName(loc[p].sess)] = chroma[CollectionName(loc[p].sess)]

\* C12: when an exception ends a run in Error, the document store,
\* indexed_files and repo_url after the error event are what they were when
\* the exception was raised, and every document of the store is still
\* returned by getByFile and by search.
C12_ErrorRetainsIndex ==
    [][ /\ ErrorKeepsIndex
        /\ \A p \in Procs : ErrorByException(p) =>
              LET st == stores[loc[p].sess]
                  coll == chroma[CollectionName(loc[p].sess)]
              IN \A i \in 1..Len(st.doc_store) : Retrievable(st, coll, st.doc_store[i]) ]_vars

\* The part of C12 that holds: no rollback.
C12_NoRollback == [][ErrorKeepsIndex]_vars

\* ------------------------------------------------------------------ C13
\* The step of chat turn p neither adds to the index nor changes a store.
IndexUntouched == stores' = stores /\ chroma' = chroma

\* C13: when the file the answer asks for cannot be resolved, the turn
\* yields an explanation and ends, and nothing is added to the index: with
\* the session's repo_url unset at the check, and with a fetch that gives no
\* content (no add is started).
C13_UnresolvedFileExplained ==
    [][\A p \in Procs :
          /\ (pc[p] = "c_check" /\ StepOf(p) /\ stores[loc[p].sess].repo_url = None)
                => /\ pc'[p] = "done" /\ obs'[p].notice = "repo_url_lost"
                   /\ thr'[p] = NoThread /\ IndexUntouched
          /\ (pc[p] = "c_download" /\ StepOf(p) /\ thr'[p] = NoThread)
                => /\ pc'[p] = "done" /\ obs'[p].notice = "download_failed"
                   /\ IndexUntouched ]_vars

\* C13 witness: a chat turn on a session that a run has indexed asked for a
\* file, the fetch failed, and the turn has ended with the explanation.
C13_Witness ==
    \E p \in Procs : /\ pc[p] = "done" /\ loc[p].kind = "chat"
                     /\ obs[p].notice = "download_failed"
                     /\ thr[p] = NoThread
                     /\ stores[loc[p].sess].repo_url # None
                     /\ stores[loc[p].sess].doc_store # << >>
                     /\ Covered(stores[loc[p].sess])

\* ------------------------------------------------------------------ C14
\* C14: chunk coverage.  For every non-empty content, whether it parses,
\* fails to parse, or parses to no function or class that is kept,
\* chunk_file returns (it raises no exception) at least one chunk.
C14_ChunkCoverage ==
    (chk.returned /\ ~chk.content.empty) => (~chk.raised /\ Len(chk.chunks) >= 1)

\* The part of C14 that holds: whenever chunk_file returns for a non-empty
\* content, it returns at least one chunk.
C14_CoverageOnReturn ==
    (chk.returned /\ ~chk.raised /\ ~chk.content.empty) => Len(chk.chunks) >= 1

\* ------------------------------------------------------------------ C15
\* start_line of a stored document: the chunks of a file come from chunk_file
\* in source order, the k-th chunk starting before the (k+1)-th.  (The
\* metadata handed to add_documents carries file, type, name and class only.)
StartLine(d) ==
    CHOOSE k \in 1..2 : \E u \in Urls : k <= Len(FileChunks(u, d.file))
                                        /\ FileChunks(u, d.file)[k] = d.content

\* The documents of the store whose file is path, in store order.
DocsOfFile(st, path) == SelectSeq(st.doc_store, LAMBDA d : d.file = path)

\* s and t hold the same elements the same number of times.
SameBag(s, t) ==
    /\ Len(s) = Len(t)
    /\ \A x \in Range(s) \cup Range(t) :
          Cardinality({ i \in 1..Len(s) : s[i] = x }) = Cardinality({ i \in 1..Len(t) : t[i] = x })

\* C15: getByFile(path) returns exactly the documents of the store whose
\* file is path, ordered by start_line ascending, and the empty sequence for
\* a path that was never indexed.
C15_GetByFileSorted ==
    \A s \in DOMAIN stores : \A f \in Files :
        LET st == stores[s]
            got == GetDocumentsByFile(st, f)
            docs == DocsOfFile(st, f)
        IN /\ SameBag([i \in 1..Len(got) |-> <<got[i].id, got[i].content>>],
                      [i \in 1..Len(docs) |-> <<docs[i].id, docs[i].content>>])
           /\ \A i, j \in 1..Len(got) : i < j => StartLine(got[i]) <= StartLine(got[j])
           /\ (f \notin st.indexed_files => got = << >>)

\* The part of C15 that holds: the same documents, in store order, and none
\* for a path that was never indexed.
C15_GetByFileInStoreOrder ==
    \A s \in DOMAIN stores : \A f \in Files :
        LET st == stores[s]
            got == GetDocumentsByFile(st, f)
            docs == DocsOfFile(st, f)
        IN /\ [i \in 1..Len(got) |-> <<got[i].id, got[i].content>>]
              = [i \in 1..Len(docs) |-> <<docs[i].id, docs[i].content>>]
           /\ (f \notin st.indexed_files => got = << >>)

\* ------------------------------------------------------------------ C16
\* The values of top_k the program searches with (main.py, chat_service.py)
\* and the smallest cut.
TopKs == {1, 3, CHAT_TOP_K}

\* x is the document d (two documents may carry one id, see add_documents).
SameDoc(x, d) == x.id = d.id /\ x.content = d.content

\* The contribution of one result list to document d: weight / (k + rank + 1)
\* for each 0-based rank at which d itself stands.
RECURSIVE DocRrfSum(_, _, _, _)
DocRrfSum(list, d, weightX10, i) ==
    IF i > Len(list) THEN 0
    ELSE (IF SameDoc(list[i], d) THEN (weightX10 * FIX) \div (RRF_K + (i - 1) + 1) ELSE 0)
         + DocRrfSum(list, d, weightX10, i + 1)

DocFusedScore(vec, lex, d) ==
    DocRrfSum(vec, d, WEIGHT_VECTOR_X10, 1) + DocRrfSum(lex, d, WEIGHT_BM25_X10, 1)

\* Position of d in the document store (0 when it is not there).
StorePos(st, d) ==
    LET at == { i \in 1..Len(st.doc_store) : SameDoc(st.doc_store[i], d) }
    IN IF at = {} THEN 0 ELSE CHOOSE i \in at : \A j \in at : i <= j

\* found is a ranking of at most top_k documents, each once, in
\* non-increasing order of the score given, ties in document-store order.
RankedBy(st, found, top_k, score) ==
    /\ Len(found) <= top_k
    /\ \A i, j \in 1..Len(found) : i < j =>
          /\ ~SameDoc(found[i], found[j])
          /\ score[i] >= score[j]
          /\ (score[i] = score[j] => StorePos(st, found[i]) < StorePos(st, found[j]))

\* C16: search(query, top_k) returns at most top_k documents, each document
\* at most once, in non-increasing order of fused score, the fused score of
\* a document being the sum of 1.0/(60+rank+1) for its rank in the dense list
\* and 0.3/(60+rank+1) for its rank in the lexical list; documents of equal
\* fused score come in document-store order.
C16_SearchRankedByFusedScore ==
    \A s \in DOMAIN stores : \A q \in Queries : \A e \in BOOLEAN : \A top_k \in TopKs :
        LET st == stores[s]
            vec == VectorResults(chroma[CollectionName(s)], q, top_k, e)
            lex == Bm25Results(st, q, top_k)
            found == Fuse(vec, lex, top_k)
        IN RankedBy(st, found, top_k,
                    ListOf([i \in 1..Len(found) |-> DocFusedScore(vec, lex, found[i])]))

\* The same ranking by the score search_hybrid keeps per id, which is the
\* document's fused score whenever the ids of the store are distinct.
C16_SearchRankedByIdScore ==
    \A s \in DOMAIN stores : \A q \in Queries : \A e \in BOOLEAN : \A top_k \in TopKs :
        LET st == stores[s]
            vec == VectorResults(chroma[CollectionName(s)], q, top_k, e)
            lex == Bm25Results(st, q, top_k)
            found == Fuse(vec, lex, top_k)
        IN RankedBy(st, found, top_k,
                    ListOf([i \in 1..Len(found) |-> FusedScore(vec, lex, found[i].id)]))

\* ------------------------------------------------------------------ C17
\* The run p is in a planning round and takes the step that parses and
\* filters the planner's answer.
Plans(p) == pc[p] = "planning" /\ pc'[p] # "planning"

\* The paths planned by the step are in the listing and were not visited
\* when the round was planned.
PlansListedUnvisited(p) ==
    Plans(p) => Range(loc'[p].todo) \subseteq (Range(loc[p].file_list) \ loc[p].visited)

\* Every path the run goes on to fetch is the head of what is left of the
\* planned paths, and the planned paths only lose their head after planning.
FetchesPlanned(p) ==
    /\ (pc'[p] = "fetching" /\ pc[p] # "fetching") =>
          /\ loc[p].todo # << >>
          /\ out'[p].last.step = "download"
          /\ out'[p].last.arg = <<Head(loc[p].todo)>>
    /\ (loc'[p].todo # loc[p].todo /\ ~Plans(p)) =>
          (loc'[p].todo = << >> \/ loc'[p].todo = Tail(loc[p].todo))

\* C17: in every planning round, every path the controller goes on to fetch
\* is in the file listing and is not in the visited set at the time of
\* planning; planner paths that fail either test are discarded.
C17_FetchesListedUnvisited ==
    [][\A p \in Procs : PlansListedUnvisited(p) /\ FetchesPlanned(p)]_vars

\* Round 1 was planned after README.md had been read: whichever list the
\* planner returned, its ghost.py or its README.md was discarded.
C17_Witness ==
    \E p \in Procs : /\ pc[p] = "fetch" /\ loc[p].round_idx = 1
                     /\ README \in loc[p].visited
                     /\ loc[p].todo = <<APY>>

\* ------------------------------------------------------------------ C18
\* Run p yields the first download event of round 0 in this step.
FirstFetchOfRun(p) ==
    /\ Yields(p) /\ out'[p].last.step = "download"
    /\ loc[p].round_idx = 0 /\ out[p].ndl = 0

\* C18: when the file listing contains a README, the README is the first
\* file fetched in round 0 of every exploration run, whatever list the
\* planner returned.
C18_ReadmeFetchedFirst ==
    [][\A p \in Procs :
          (FirstFetchOfRun(p) /\ ReadmeFile(loc[p].file_list) # None)
              => out'[p].last.arg = <<README>>]_vars

\* What holds: the README is among the paths planned in round 0 whenever the
\* round plans at all, and it is the first of them unless the planner itself
\* named it after another valid path.
C18_ReadmePlannedInRoundZero ==
    [][\A p \in Procs :
          (Plans(p) /\ loc[p].round_idx = 0 /\ ReadmeFile(loc[p].file_list) # None
           /\ pc'[p] # "done")
              => /\ README \in Range(loc'[p].todo)
                 /\ (pc'[p] = "plan2" => Head(loc'[p].todo) = README)]_vars

\* ------------------------------------------------------------------ C19
\* Planner outputs that are not a list of paths.
InvalidOutputs == { a \in PlannerOutputs : a.kind # "list" }

\* The round of p selected no files: nothing is planned beyond the README
\* that round 0 reads by itself, the run has not ended in the error event,
\* and unless that README is to be read the loop is left for the report.
SelectsNoFiles(p) ==
    /\ out'[p].last.step # "error"
    /\ pc'[p] \in {"report", "plan2"}
    /\ (pc'[p] = "report" => loc'[p].todo = << >>)
    /\ (pc'[p] = "plan2" => loc[p].round_idx = 0 /\ loc'[p].todo = <<README>>)

\* C19: a planner output that is not valid structured output (not parseable
\* as a list of paths, valid JSON that is not a list included) is treated
\* as selecting no files: nothing is fetched on its account, the loop is
\* left for Report, and the run never ends in Error because of it.
C19_InvalidOutputSelectsNothing ==
    [][\A p \in Procs : \A a \in InvalidOutputs :
          Plan(p, a, FALSE) => SelectsNoFiles(p)]_vars

\* What holds: the same for the outputs json.loads rejects.
C19_UnparseableOutputSelectsNothing ==
    [][\A p \in Procs : \A a \in InvalidOutputs :
          (a.kind = "garbage" /\ Plan(p, a, FALSE)) => SelectsNoFiles(p)]_vars

\* ------------------------------------------------------------------ C20
\* The fetch of the planned file of run p comes back empty in this step.
FetchFails(p) == pc[p] = "fetching" /\ pc'[p] = "fetch"

\* C20: when fetching a planned file fails (empty content), the controller
\* skips that file only: no error event (no event at all), the file is not
\* added to the visited set or the index, and the run goes on with the
\* remaining planned files of the round in order, in the same round.
C20_FetchFailureSkipsFile ==
    [][\A p \in Procs : FetchFails(p) =>
          /\ out' = out
          /\ loc'[p].visited = loc[p].visited
          /\ stores' = stores /\ chroma' = chroma /\ thr' = thr
          /\ loc'[p].todo = Tail(loc[p].todo)
          /\ loc'[p].round_idx = loc[p].round_idx
          /\ loc'[p].file_list = loc[p].file_list]_vars

\* The fetch of README.md failed in round 0; a.py was fetched all the same
\* and the run has reached the report.
C20_Witness ==
    \E p \in Procs : /\ pc[p] = "stream" /\ out[p].last.step = "generating"
                     /\ README \in Range(loc[p].file_list)
                     /\ README \notin loc[p].visited
                     /\ APY \in loc[p].visited
                     /\ GetDocumentsByFile(stores[loc[p].sess], README) = << >>

\* ------------------------------------------------------------------ C21
\* The chat turn p stands at the check of the requested file, the session
\* knows its repository and the file is in indexed_files with stored chunks.
AsksIndexedFile(p) ==
    /\ pc[p] = "c_check"
    /\ stores[loc[p].sess].repo_url # None
    /\ loc[p].missing \in stores[loc[p].sess].indexed_files
    /\ GetDocumentsByFile(stores[loc[p].sess], loc[p].missing) # << >>

\* C21: when the requested file is already in indexed_files (with stored
\* chunks), the supplementation takes its chunks from getByFile, performs no
\* fetch and no add, leaves the index unchanged and re-issues the answer
\* request exactly once with the supplemented context.
C21_IndexedFileServedFromStore ==
    [][\A p \in Procs : (AsksIndexedFile(p) /\ pc'[p] # "c_check") =>
          /\ pc'[p] = "done"
          /\ stores' = stores /\ chroma' = chroma /\ thr' = thr
          /\ obs'[p].notice = None /\ obs'[p].fetches = 0
          /\ obs'[p].retries = 1
          /\ obs'[p].supp = BuildContext(GetDocumentsByFile(stores[loc[p].sess],
                                                            loc[p].missing))]_vars

\* A turn that asked for a.py, found both its chunks in the store and
\* re-issued the request with them.
C21_Witness ==
    \E p \in Procs : /\ pc[p] = "done" /\ loc[p].kind = "chat"
                     /\ obs[p].fetches = 0
                     /\ obs[p].retries = 1 /\ Len(obs[p].supp) = 2
                     /\ \A i \in 1..2 : obs[p].supp[i].file = APY
                     /\ Len(stores[loc[p].sess].doc_store) = 2

\* ------------------------------------------------------------------ C22
\* C22: every chunk chunk_file returns has non-empty content, on the parse
\* path and on the fallback of fixed windows alike (a text whose line count
\* is a multiple of the window size followed by a trailing newline included).
C22_ChunksNonEmpty ==
    (chk.returned /\ ~chk.raised) =>
        \A i \in 1..Len(chk.chunks) : ~chk.chunks[i].empty

\* What holds: the chunks of the parse path are non-empty, and so is every
\* window of the fallback but the one made of the empty last line.
C22_OnlyLastWindowEmpty ==
    (chk.returned /\ ~chk.raised) =>
        \A i \in 1..Len(chk.chunks) :
            chk.chunks[i].empty =>
                /\ chk.chunks[i].type = "text_chunk" /\ i = Len(chk.chunks)
                /\ chk.content.trailing
                /\ chk.content.nlines % FALLBACK_LINES = 1

\* ------------------------------------------------------------------ C23
\* C23: after any sequence of adds since the last reset, adds that index the
\* same file more than once included, the documents of the document store
\* have pairwise distinct ids (so the fused-score table of search never
\* merges two documents under one id).
C23_DistinctIds ==
    \A s \in DOMAIN stores :
        \A i, j \in 1..Len(stores[s].doc_store) :
            i # j => stores[s].doc_store[i].id # stores[s].doc_store[j].id

\* What holds: two documents share an id only when they are chunks of one
\* file.
C23_SharedIdsOnlyWithinFile ==
    \A s \in DOMAIN stores :
        \A i, j \in 1..Len(stores[s].doc_store) :
            (i < j /\ stores[s].doc_store[i].id = stores[s].doc_store[j].id)
                => stores[s].doc_store[i].file = stores[s].doc_store[j].file

\* ------------------------------------------------------------------ C24
\* No add_documents call is under way on session s.
NoAddInProgress(s) == \A p \in Procs : ~(pc[p] = "adding" /\ loc[p].sess = s)

\* C24: in every state reached by completed add and reset operations,
\* indexed_files is exactly the set of file paths of the documents in the
\* document store: a path is in indexed_files if and only if getByFile
\* returns a non-empty sequence for it.
C24_IndexedFilesMatchStore ==
    \A s \in DOMAIN stores : NoAddInProgress(s) =>
        /\ stores[s].indexed_files = { stores[s].doc_store[i].file :
                                         i \in 1..Len(stores[s].doc_store) }
        /\ \A f \in Files :
              f \in stores[s].indexed_files <=> GetDocumentsByFile(stores[s], f) # << >>

\* Both files of the repository were added and no add is under way.
C24_Witness ==
    \E s \in DOMAIN stores : /\ NoAddInProgress(s)
                             /\ stores[s].indexed_files = {README, APY}
                             /\ GetDocumentsByFile(stores[s], GHOST) = << >>
                             /\ Len(GetDocumentsByFile(stores[s], APY)) >= 2

\* ------------------------------------------------------------------ C25
\* Run p hands the chunks of the fetched file to add_documents in this step.
AddsFetchedFile(p) == loc[p].kind = "run" /\ pc[p] = "fetching" /\ pc'[p] = "adding"

\* C25: within one exploration run no file is chunked and added to the index
\* more than once, whatever the planner returns in any round (a list that
\* names the same path twice in one round included).
C25_FileAddedOncePerRun ==
    [][\A p \in Procs : AddsFetchedFile(p) => Head(loc[p].todo) \notin loc[p].visited]_vars

\* What holds: a run adds a file again only within the round whose plan
\* names the path more than once.
C25_ReaddedOnlyWhenPlannedTwice ==
    [][\A p \in Procs :
          (AddsFetchedFile(p) /\ Head(loc[p].todo) \in loc[p].visited)
              => Cardinality({ i \in 1..Len(out[p].planned) :
                                 out[p].planned[i] = Head(loc[p].todo) }) >= 2]_vars

\* ------------------------------------------------------------------ C26
\* The repositories a stored document names in its text (the chunks of a
\* file fetched from u that carry u, see FileChunks).
SourcesOf(d) == { u \in Urls : \E i \in 1..Len(d.content) : d.content[i] = u }

\* C26: every document in a session's document store was fetched from the
\* repository whose URL is the session's current repo_url, for every
\* interleaving of exploration runs and chat supplementations on the
\* session.
C26_DocsFromCurrentRepo ==
    \A s \in DOMAIN stores :
        \A i \in 1..Len(stores[s].doc_store) :
            SourcesOf(stores[s].doc_store[i]) \subseteq {stores[s].repo_url}

\* ------------------------------------------------------------------ C27
\* C27: a chat turn whose first model response is non-empty never ends
\* having emitted nothing: either the buffered response text is emitted in
\* full and in order, or a file request is recognised and a supplementation
\* message is emitted (also when the response starts with '{' and mentions
\* missing_file without carrying a usable path).
C27_ReplyNeverSwallowed ==
    (reply.ended /\ reply.response # << >>) =>
        \/ reply.emitted = reply.response
        \/ reply.is_tool_call /\ reply.asked

\* What holds: the response is emitted in full and in order, or the file is
\* asked for, or the response was a JSON object that mentions missing_file
\* without a usable path and nothing at all was emitted.
C27_SwallowedOnlyWithoutPath ==
    (reply.ended /\ reply.response # << >>) =>
        \/ reply.emitted = reply.response
        \/ reply.is_tool_call /\ reply.asked /\ reply.emitted = << >>
        \/ /\ reply.is_tool_call /\ reply.missing_file = None /\ reply.emitted = << >>
           /\ StartsWithBrace(Clean(reply.response))
           /\ MentionsMissingFile(reply.response)
====
